---------------------------- MODULE Spec2Model ----------------------------
(***************************************************************************)
(* Update daemon of myapp (src/myapp/daemon.py, src/myapp/updater.py):     *)
(* the PID-file single-instance guard, start/stop, the double fork, the    *)
(* poll loop and the check/install/relaunch cycle.                         *)
(*                                                                         *)
(* Every operating-system process is a slot of `proc`.  One step of a      *)
(* process is one system call on shared state (the PID file, a signal, a   *)
(* fork) or one stretch of purely local code, so that every interleaving   *)
(* of the processes on the PID file is a behaviour of the model.           *)
(***************************************************************************)
EXTENDS Integers, FiniteSets, Sequences, TLC

VARIABLES proc, pidFile, nInvoked, lastPid, raced, calc

vars == <<proc, pidFile, nInvoked, lastPid, raced, calc>>

(***************************************************************************)
(* Bounds of the model.                                                    *)
(***************************************************************************)
\* size of the PID table; an exited process's PID is free for reuse
NProc == 2
\* operator commands (start / stop) issued in one behaviour
MaxInvocations == 2
\* check_interval in poll ticks (one tick is the time.sleep(60) of _run;
\* 3600 s / 60 s in the shipped config), scaled
CheckIntervalTicks == 2
\* liveness polls of stop() before the forceful kill: range(30), scaled
MaxPolls == 2

Pids == 1..NProc
\* user IDs: 0 is root, 1 an unprivileged desktop user
Uids == {0, 1}

\* Time.  The code looks at the clock in one place, the head of a loop
\* iteration, and only at the difference now - last_check.  A daemon's
\* `elapsed` is that difference in poll ticks, counted up to the interval
\* (beyond it every value answers the test alike).
\* last_check = datetime.min: further in the past than any interval
DatetimeMin == CheckIntervalTicks

\* NOTIFY_ONLY and USE_APT of config.py
NOTIFY_ONLY == FALSE
USE_APT == FALSE

(***************************************************************************)
(* The check/install/relaunch cycle's record of one loop iteration.        *)
(***************************************************************************)
\* what the launch part of _restart_myapp did: nothing yet
NoLaunch == [attempts |-> <<>>, won |-> "none", errors |-> 0, raised |-> FALSE]

NoCycle ==
    [ran |-> FALSE, checkFailed |-> FALSE, installCalls |-> 0,
     cmdFailed |-> FALSE, updated |-> FALSE, raised |-> FALSE,
     relaunchCalls |-> 0, launch |-> NoLaunch]

\* a PID-table slot with no process in it
FreeProc ==
    [pc |-> "free", uid |-> 0, detach |-> FALSE, rpid |-> 0, polls |-> 0,
     running |-> FALSE, handlers |-> FALSE, atexit |-> FALSE,
     elapsed |-> 0, cyc |-> NoCycle]

NoFile == [exists |-> FALSE, content |-> 0, owner |-> 0, ww |-> FALSE]

Alive(p) == proc[p].pc # "free"

StartPcs == {"s_read", "s_probe", "s_unlink", "s_fork1", "s_fork2",
             "s_write", "s_sig", "s_run"}
LoopPcs == {"loop", "check", "relaunch", "sleep"}
StopPcs == {"t_read", "t_term", "t_poll", "t_kill", "t_remove"}

\* the Running state of section 4.4: inside the while loop of _run
InLoop(p) == proc[p].pc \in LoopPcs

(***************************************************************************)
(* The PID file and the system calls on it.                                *)
(***************************************************************************)
\* variant of get_pid: a missing file reads as a PID
get_pid_Blind == NProc

\* _get_pid: 0 when the file is absent or does not hold an integer
get_pid == IF pidFile.exists /\ pidFile.content > 0 THEN pidFile.content ELSE 0

\* variant of MayUnlink: a directory without the sticky bit
MayUnlink_Anyone(p) == TRUE

\* /tmp is sticky: only root or the file's owner may unlink an entry
MayUnlink(p) == proc[p].uid = 0 \/ proc[p].uid = pidFile.owner

\* open(path, 'w') of an existing file: root, the owner, or anyone when the
\* file was created under umask 0 (by a detached daemon)
MayWrite(p) ==
    \/ ~pidFile.exists
    \/ proc[p].uid = 0
    \/ proc[p].uid = pidFile.owner
    \/ pidFile.ww

\* _remove_pid: "ok" (removed, or absent and FileNotFoundError swallowed) or
\* "EPERM" (PermissionError, which _remove_pid does not catch)
RemoveResult(p) ==
    IF ~pidFile.exists \/ MayUnlink(p) THEN "ok" ELSE "EPERM"

\* os.kill(t, sig) called by p: what the call reports
KillResult(p, t) ==
    IF t \notin Pids \/ ~Alive(t) THEN "ESRCH"
    ELSE IF proc[p].uid = 0 \/ proc[p].uid = proc[t].uid THEN "ok"
    ELSE "EPERM"

\* variant of Deliver: the handler ends the process
Deliver_Exits(tbl, t, sig) ==
    IF sig \in {"KILL", "TERM"} THEN [tbl EXCEPT ![t] = FreeProc] ELSE tbl

\* _signal_handler, and the default action of a signal without one: the
\* process table after signal `sig` reached process t
Deliver(tbl, t, sig) ==
    IF sig = "KILL" \/ (sig = "TERM" /\ ~tbl[t].handlers)
    THEN [tbl EXCEPT ![t] = FreeProc]
    ELSE IF sig = "TERM"
    THEN [tbl EXCEPT ![t].running = FALSE]
    ELSE tbl

\* between the read of the PID file and the write or removal that acts on it
InWindow(q) ==
    proc[q].pc \in {"s_probe", "s_unlink", "s_fork1", "s_fork2", "s_write",
                    "t_term", "t_poll", "t_kill", "t_remove"}

\* the kernel hands out PIDs in increasing order, wrapping around at the
\* end of the table and skipping the ones in use: the PID the next fork
\* or command gets, 0 when the table is full
RECURSIVE ScanFree(_, _)
ScanFree(k, n) ==
    IF n = 0 THEN 0
    ELSE LET q == (k % NProc) + 1
         IN  IF ~Alive(q) THEN q ELSE ScanFree(q, n - 1)

NextPid == ScanFree(lastPid, NProc)

\* a PID file left behind by a daemon of user u that was killed before its
\* exit hook ran
StaleFile(u) == [exists |-> TRUE, content |-> NProc, owner |-> u, ww |-> FALSE]

\* `calc`: the last call of a function looked at on its own (its
\* arguments and what it returned); no call yet
NoCalc == [fn |-> "none"]

Init ==
    /\ proc = [p \in Pids |-> FreeProc]
    /\ pidFile \in {NoFile} \cup {StaleFile(u) : u \in Uids}
    /\ nInvoked = 0
    /\ lastPid = 0
    /\ raced = FALSE
    /\ calc = NoCalc

(***************************************************************************)
(* updater.py: one check-and-update, as a function of what the network     *)
(* and the installer commands answer.                                      *)
(***************************************************************************)
\* what the version fetch yields: an error (URLError, timeout, a version
\* that does not parse), a version not newer than the installed one, or a
\* newer one
Fetch == {"error", "current", "newer"}
\* how an external command ends: exit 0, non-zero exit, TimeoutExpired
RC == {"ok", "fail", "timeout"}

\* Updater.check_for_update: every exception becomes (False, None)
check_for_update(fetch) ==
    [available |-> fetch = "newer", latest_known |-> fetch # "error"]

\* Updater._install_via_apt: apt-get update, then apt-get install
install_via_apt(rcUpdate, rcInstall) ==
    IF rcUpdate # "ok" THEN FALSE
    ELSE IF rcInstall # "ok" THEN FALSE
    ELSE TRUE

\* Updater._install_via_deb: download, dpkg -i, and on a non-zero exit of
\* dpkg an apt-get install -f whose exit status is not looked at
install_via_deb(download, rcDpkg, rcFix) ==
    IF download # "ok" THEN FALSE
    ELSE IF rcDpkg = "timeout" THEN FALSE
    ELSE IF rcDpkg = "fail" /\ rcFix = "timeout" THEN FALSE
    ELSE TRUE

\* how the download of _install_via_deb ends: no download URL is known,
\* the request or the write raises, or the package is written
Downloads == {"nourl", "error", "ok"}

\* Updater._install_via_deb, as the file operations and commands it gets
\* to, in order: "mktemp" is NamedTemporaryFile(delete=False), "unlink" is
\* os.unlink(tmp_path); an exception anywhere in the try block goes to
\* `except Exception`, which returns False
deb_events(download, rcDpkg, rcFix) ==
    IF download = "nourl" THEN <<>>
    ELSE IF download # "ok" THEN <<"mktemp">>
    ELSE IF rcDpkg = "timeout" THEN <<"mktemp", "dpkg">>
    ELSE IF rcDpkg = "fail" /\ rcFix = "timeout"
    THEN <<"mktemp", "dpkg", "fix">>
    ELSE IF rcDpkg = "fail" THEN <<"mktemp", "dpkg", "fix", "unlink">>
    ELSE <<"mktemp", "dpkg", "unlink">>

\* the temporary files that exist after a run of events
TempFilesLeft(events) ==
    Cardinality({i \in 1..Len(events) : events[i] = "mktemp"})
    - Cardinality({i \in 1..Len(events) : events[i] = "unlink"})

\* Updater.install_update
install_update(latest_known, download, rc1, rc2) ==
    IF ~latest_known THEN FALSE
    ELSE IF NOTIFY_ONLY THEN FALSE
    ELSE IF USE_APT THEN install_via_apt(rc1, rc2)
    ELSE install_via_deb(download, rc1, rc2)

\* the privileged install command (dpkg -i, or an apt-get of the APT path)
\* was run and exited non-zero or timed out
InstallerFailed(download, rc1, rc2) ==
    IF USE_APT THEN rc1 # "ok" \/ rc2 # "ok"
    ELSE download = "ok" /\ rc1 # "ok"

ShouldInstall_WhenAvailable(update_available, auto_install) ==
    update_available

\* updater.check_and_update: `if update_available and auto_install:`
ShouldInstall(update_available, auto_install) ==
    update_available /\ auto_install

\* updater.check_and_update
check_and_update(auto_install, fetch, download, rc1, rc2) ==
    LET chk == check_for_update(fetch)
        inst == ShouldInstall(chk.available, auto_install)
    IN  [checkFailed |-> fetch = "error",
         installCalls |-> IF inst THEN 1 ELSE 0,
         cmdFailed |-> inst /\ InstallerFailed(download, rc1, rc2),
         updated |-> IF inst
                     THEN install_update(chk.latest_known, download, rc1, rc2)
                     ELSE FALSE]

(***************************************************************************)
(* Operator commands.                                                      *)
(***************************************************************************)
\* handle_daemon / main: a new process runs `start` or `stop`
Invoke(p) ==
    /\ p = NextPid
    /\ nInvoked < MaxInvocations
    /\ \E cmd \in {"s_read", "t_read"}, u \in Uids, d \in BOOLEAN :
          /\ cmd = "t_read" => ~d
          /\ proc' = [proc EXCEPT ![p] =
                        [FreeProc EXCEPT !.pc = cmd, !.uid = u, !.detach = d]]
    /\ nInvoked' = nInvoked + 1
    /\ lastPid' = p
    /\ UNCHANGED <<pidFile, raced, calc>>

\* variant of AfterCheck: the PID file is written without _daemonize
AfterCheck_WriteFirst(p) == "s_write"

\* where start() goes once _is_running() has answered False
AfterCheck(p) == IF proc[p].detach THEN "s_fork1" ELSE "s_write"

\* start -> _is_running -> _get_pid
StartRead(p) ==
    /\ proc[p].pc = "s_read"
    /\ proc' = [proc EXCEPT ![p].rpid = get_pid,
                            ![p].pc = IF get_pid = 0 THEN AfterCheck(p)
                                      ELSE "s_probe"]
    /\ raced' = (raced \/ \E q \in Pids \ {p} : InWindow(q))
    /\ UNCHANGED <<pidFile, nInvoked, lastPid, calc>>

\* variant of ProbeSaysRunning: _is_running never answers True
ProbeSaysRunning_Never(r) == FALSE

\* _is_running answers True exactly when os.kill(pid, 0) raises no OSError
ProbeSaysRunning(r) == r = "ok"

\* start -> _is_running -> os.kill(pid, 0); True makes start() return
StartProbe(p) ==
    /\ proc[p].pc = "s_probe"
    /\ proc' = [proc EXCEPT ![p] =
                  IF ProbeSaysRunning(KillResult(p, proc[p].rpid))
                  THEN FreeProc
                  ELSE [@ EXCEPT !.pc = "s_unlink"]]
    /\ UNCHANGED <<pidFile, nInvoked, lastPid, raced, calc>>

\* start -> _is_running -> _remove_pid; a PermissionError ends the process
StartUnlink(p) ==
    /\ proc[p].pc = "s_unlink"
    /\ IF RemoveResult(p) = "ok"
       THEN /\ pidFile' = NoFile
            /\ proc' = [proc EXCEPT ![p].pc = AfterCheck(p), ![p].rpid = 0]
       ELSE /\ pidFile' = pidFile
            /\ proc' = [proc EXCEPT ![p] = FreeProc]
    /\ UNCHANGED <<nInvoked, lastPid, raced, calc>>

\* _daemonize: one os.fork(); the parent exits 0 and the child goes on, or
\* the fork fails and the process exits 1
Fork(p) ==
    /\ proc[p].pc \in {"s_fork1", "s_fork2"}
    /\ \/ /\ NextPid # 0
          /\ proc' = [proc EXCEPT
               ![NextPid] = [proc[p] EXCEPT !.pc = IF proc[p].pc = "s_fork1"
                                                    THEN "s_fork2"
                                                    ELSE "s_write"],
               ![p] = FreeProc]
          /\ lastPid' = NextPid
       \/ /\ proc' = [proc EXCEPT ![p] = FreeProc]
          /\ lastPid' = lastPid
    /\ UNCHANGED <<pidFile, nInvoked, raced, calc>>

\* _write_pid, then atexit.register(_remove_pid)
StartWrite(p) ==
    /\ proc[p].pc = "s_write"
    /\ IF MayWrite(p)
       THEN /\ pidFile' = [exists |-> TRUE, content |-> p,
                           owner |-> IF pidFile.exists THEN pidFile.owner
                                     ELSE proc[p].uid,
                           ww |-> IF pidFile.exists THEN pidFile.ww
                                  ELSE proc[p].detach]
            /\ proc' = [proc EXCEPT ![p].pc = "s_sig", ![p].atexit = TRUE,
                                    ![p].detach = FALSE]
       ELSE /\ pidFile' = pidFile
            /\ proc' = [proc EXCEPT ![p] = FreeProc]
    /\ UNCHANGED <<nInvoked, lastPid, raced, calc>>

\* signal.signal(SIGTERM, ...), signal.signal(SIGINT, ...)
StartSignals(p) ==
    /\ proc[p].pc = "s_sig"
    /\ proc' = [proc EXCEPT ![p].pc = "s_run", ![p].handlers = TRUE]
    /\ UNCHANGED <<pidFile, nInvoked, lastPid, raced, calc>>

\* self.running = True; _run: last_check = datetime.min
StartRun(p) ==
    /\ proc[p].pc = "s_run"
    /\ proc' = [proc EXCEPT ![p].pc = "loop", ![p].running = TRUE,
                            ![p].elapsed = DatetimeMin]
    /\ UNCHANGED <<pidFile, nInvoked, lastPid, raced, calc>>

(***************************************************************************)
(* _restart_myapp: the launch of the new instance, as a function of the    *)
(* session that was located and of how each launch command ends.           *)
(***************************************************************************)
\* real_user / real_uid after the probes: no user; a user name without a
\* uid (root, whose uid is not looked up and is 0 when loginctl reports it;
\* or a name that pwd.getpwnam does not resolve); a user name with its uid
Sessions ==
    {[user |-> "none", uid |-> 0], [user |-> "root", uid |-> 0],
     [user |-> "user", uid |-> 0], [user |-> "user", uid |-> 1]}

\* the list `methods`, in its order
Mechanisms == <<"runuser", "sudo", "su">>

\* how one attempt ends: the re-scan finds a matching process; it finds
\* none; the command times out; the command or the re-scan raises
Outcome == {"live", "none", "timeout", "error"}
LaunchOutcomes == [1..Len(Mechanisms) -> Outcome]

\* variant of UsesMechanisms: the mechanisms whatever was located
UsesMechanisms_Always(s) == TRUE

\* `if real_user and real_uid:`
UsesMechanisms(s) == s.user # "none" /\ s.uid # 0

\* `for i, cmd in enumerate(methods)`: the commands run from the i-th on,
\* up to the first whose re-scan finds a process (`return`)
RECURSIVE Attempts(_, _)
Attempts(i, outs) ==
    IF i > Len(Mechanisms) THEN <<>>
    ELSE IF outs[i] = "live" THEN <<Mechanisms[i]>>
    ELSE <<Mechanisms[i]>> \o Attempts(i + 1, outs)

\* the mechanism after which the procedure returned, "none" when the loop
\* ran to its end
RECURSIVE Winner(_, _)
Winner(i, outs) ==
    IF i > Len(Mechanisms) THEN "none"
    ELSE IF outs[i] = "live" THEN Mechanisms[i]
    ELSE Winner(i + 1, outs)

\* variant of ExhaustedErrors: the end of the loop logs nothing
ExhaustedErrors_Silent(won) == 0

\* logger.error("All restart methods failed!") after the loop
ExhaustedErrors(won) == IF won = "none" THEN 1 ELSE 0

\* the launch part of _restart_myapp: located session s, mechanism
\* outcomes outs, and fb, how subprocess.Popen of the fallback ends
launch(s, outs, fb) ==
    IF UsesMechanisms(s)
    THEN [attempts |-> Attempts(1, outs), won |-> Winner(1, outs),
          errors |-> ExhaustedErrors(Winner(1, outs)), raised |-> FALSE]
    ELSE [attempts |-> <<"direct">>, won |-> "none",
          errors |-> IF fb = "error" THEN 1 ELSE 0, raised |-> FALSE]

\* the probes for the desktop user, in the order of the code: loginctl,
\* the scan of /run/user/*, the owner of /tmp/.X11-unix/X0
Probes == <<"loginctl", "run_user", "x_socket">>

\* how a probe ends: with a username, without one, or with an exception
ProbeOutcome == {"user", "empty", "raises"}
ProbeOutcomes == [1..Len(Probes) -> ProbeOutcome]

\* the exceptions of the /run/user scan are caught entry by entry
\* (`except: continue`); loginctl and stat run bare in the one try block
\* around all three probes
ProbeContained(i) == Probes[i] = "run_user"

\* the probes run from the i-th on: up to the first that yields a
\* username (`if not real_user`), or that raises into `except Exception`
RECURSIVE ProbesRun(_, _)
ProbesRun(i, outs) ==
    IF i > Len(Probes) THEN <<>>
    ELSE IF outs[i] = "user" \/ (outs[i] = "raises" /\ ~ProbeContained(i))
    THEN <<Probes[i]>>
    ELSE <<Probes[i]>> \o ProbesRun(i + 1, outs)

\* the locator part of _restart_myapp: the probes run, whether a username
\* came out, and whether an exception left the part
locate_user(outs) ==
    LET ran == ProbesRun(1, outs)
    IN  [attempted |-> ran,
         found |-> outs[Len(ran)] = "user",
         raised |-> FALSE]

\* xauth_paths: ~/.Xauthority, the gdm file of the runtime directory, and
\* what the glob of the Xwayland authority files returned
XauthCandidates == <<"home", "gdm", "xwayland">>
XauthExists == [1..Len(XauthCandidates) -> BOOLEAN]

\* `for path in xauth_paths: if os.path.exists(path): ... break`; "none"
\* is the None xauthority starts with
find_xauthority(exists) ==
    IF \E i \in 1..Len(XauthCandidates) : exists[i]
    THEN XauthCandidates[CHOOSE i \in 1..Len(XauthCandidates) :
                            exists[i] /\ \A j \in 1..(i - 1) : ~exists[j]]
    ELSE "none"

\* xauth_export: the discovered file, or else a fixed text (a plain string
\* that still holds the characters {real_user})
xauth_export(xauthority) ==
    IF xauthority # "none" THEN xauthority ELSE "uninterpolated_default"

\* the environment of the application started by a mechanism: the exports
\* of inner_cmd, and LOGNAME, which runuser, sudo and su set to the target
\* user; "unset" marks a variable nothing sets
launch_env(s, exists) ==
    [DISPLAY |-> ":0",
     DBUS_SESSION_BUS_ADDRESS |-> <<"run_user_bus", s.uid>>,
     HOME |-> <<"home", s.user>>,
     USER |-> s.user,
     LOGNAME |-> s.user,
     XAUTHORITY |-> xauth_export(find_xauthority(exists))]

\* everything the launch part can do
LaunchResults ==
    {launch(s, outs, fb) :
        s \in Sessions, outs \in LaunchOutcomes, fb \in {"ok", "error"}}

(***************************************************************************)
(* _run: the poll loop.  Each step is a function of the daemon's own       *)
(* record; the actions below apply the steps one at a time (LoopTop,       *)
(* CheckAndUpdate, Relaunch, Sleep) or a whole iteration at once           *)
(* (Iteration).                                                            *)
(***************************************************************************)
\* now - last_check >= timedelta(seconds=self.check_interval)
Due_Strict(elapsed, interval) == elapsed > interval

\* `now - last_check >= timedelta(seconds=self.check_interval)`
Due(elapsed, interval) == elapsed >= interval

IsDue(elapsed) == Due(elapsed, CheckIntervalTicks)

\* variant of LoopContinues: the loop does not look at the flag
LoopContinues_Always(pr) == TRUE

\* the test of `while self.running`
LoopContinues(pr) == pr.running

\* the head of one iteration: the while test, now = datetime.now(), and
\* the test whether a check is due
TopStep(pr) ==
    IF ~LoopContinues(pr) THEN [pr EXCEPT !.pc = "exiting"]
    ELSE IF IsDue(pr.elapsed) THEN [pr EXCEPT !.pc = "check"]
    ELSE [pr EXCEPT !.pc = "sleep"]

\* variant of ShouldRelaunch: _restart_myapp after every check
ShouldRelaunch_Always(updated) == TRUE

\* `if updated:` of _run
ShouldRelaunch(updated) == updated

\* variant of ElapsedAfterCycle: last_check moves only after a cycle that
\* did not fail
ElapsedAfterCycle_OnSuccess(elapsed, failed) ==
    IF failed THEN elapsed ELSE 0

\* now - last_check once the cycle is over: `last_check = now` stands after
\* the try/except, so it runs whether or not the cycle failed
ElapsedAfterCycle(elapsed, failed) == 0

\* what one check_and_update(auto_install=True) can answer
CycleResults ==
    {check_and_update(TRUE, fetch, "ok", "ok", "ok") :
        fetch \in {"error", "current"}}
    \cup {check_and_update(TRUE, "newer", download, rc1, rc2) :
            download \in {"ok", "fail"}, rc1 \in RC, rc2 \in RC}

\* the cycle's record of a result of check_and_update
CycleOf(r) ==
    [NoCycle EXCEPT !.ran = TRUE, !.checkFailed = r.checkFailed,
                    !.installCalls = r.installCalls,
                    !.cmdFailed = r.cmdFailed, !.updated = r.updated]

\* how the try block's call of check_and_update can end: with a result,
\* or raising (`except Exception` of _run)
CheckOutcomes ==
    {CycleOf(r) : r \in CycleResults}
    \cup {[NoCycle EXCEPT !.ran = TRUE, !.raised = TRUE]}

\* the daemon's record after check_and_update ended as `o`: on to
\* _restart_myapp, or past the try/except and `last_check = now`
CheckStep(pr, o) ==
    IF ~o.raised /\ ShouldRelaunch(o.updated)
    THEN [pr EXCEPT !.pc = "relaunch", !.cyc = o]
    ELSE [pr EXCEPT !.pc = "sleep", !.cyc = o,
                    !.elapsed = ElapsedAfterCycle(@, o.raised \/ o.checkFailed)]

\* variant of RelaunchTargets: the daemon's own PID is not taken out
RelaunchTargets_All(p, listed) == listed

\* the processes _restart_myapp signals: the ones pgrep listed for the
\* pattern myapp.*main.py (`listed`: which command lines match is the
\* installation's matter), but not the daemon itself
RelaunchTargets(p, listed) == listed \ {p}

\* os.kill(pid, SIGTERM) for every target, each in its own try/except
KillOld(tbl, p, targets) ==
    [q \in Pids |->
        IF q \in targets /\ KillResult(p, q) = "ok"
        THEN Deliver(tbl, q, "TERM")[q]
        ELSE tbl[q]]

\* the daemon's record after _restart_myapp returned or raised (caught by
\* `except Exception` of _run), and `last_check = now`
RelaunchStep(pr, raises, launched) ==
    [pr EXCEPT !.pc = "sleep",
               !.cyc = [@ EXCEPT !.relaunchCalls = @ + 1, !.raised = raises,
                                 !.launch = IF raises THEN NoLaunch
                                            ELSE launched],
               !.elapsed = ElapsedAfterCycle(@, raises)]

\* the process table after daemon p, whose record becomes `mine`, ran
\* _restart_myapp and signalled `targets` (none when pgrep listed nothing
\* or the procedure raised before it got there)
AfterRelaunch(p, mine, targets) ==
    KillOld([proc EXCEPT ![p] = mine], p, targets)

\* elapsed time after d more ticks
Later(elapsed, d) ==
    IF elapsed + d > CheckIntervalTicks THEN CheckIntervalTicks
    ELSE elapsed + d

\* time.sleep(60): at least one poll tick (d >= 1) passes before the next
\* iteration reads the clock
SleepStep(pr, d) ==
    [pr EXCEPT !.pc = "loop", !.cyc = NoCycle, !.elapsed = Later(@, d)]

LivePids == {q \in Pids : Alive(q)}

LoopTop(p) ==
    /\ proc[p].pc = "loop"
    /\ proc' = [proc EXCEPT ![p] = TopStep(@)]
    /\ UNCHANGED <<pidFile, nInvoked, lastPid, raced, calc>>

CheckAndUpdate(p) ==
    /\ proc[p].pc = "check"
    /\ \E o \in CheckOutcomes :
          proc' = [proc EXCEPT ![p] = CheckStep(@, o)]
    /\ UNCHANGED <<pidFile, nInvoked, lastPid, raced, calc>>

Relaunch(p) ==
    /\ proc[p].pc = "relaunch"
    /\ \E raises \in BOOLEAN, listed \in SUBSET LivePids,
          launched \in LaunchResults :
          proc' = AfterRelaunch(p, RelaunchStep(proc[p], raises, launched),
                                RelaunchTargets(p, listed))
    /\ UNCHANGED <<pidFile, nInvoked, lastPid, raced, calc>>

Sleep(p) ==
    /\ proc[p].pc = "sleep"
    /\ \E d \in 1..CheckIntervalTicks :
          proc' = [proc EXCEPT ![p] = SleepStep(@, d)]
    /\ UNCHANGED <<pidFile, nInvoked, lastPid, raced, calc>>

\* the records a daemon can wake up with after time.sleep(60)
Slept(recs) == {SleepStep(pr, d) : pr \in recs, d \in 1..CheckIntervalTicks}

\* one whole iteration of the while loop, from its test to the end of its
\* sleep, as one step: the steps above, one after the other
Iteration(p) ==
    /\ proc[p].pc = "loop"
    /\ LET top == TopStep(proc[p])
           checked == {CheckStep(top, o) : o \in CheckOutcomes}
       IN  \/ /\ top.pc = "exiting"
              /\ proc' = [proc EXCEPT ![p] = top]
           \/ /\ top.pc = "sleep"
              /\ \E mine \in Slept({top}) :
                    proc' = [proc EXCEPT ![p] = mine]
           \/ /\ top.pc = "check"
              /\ \E mine \in Slept({c \in checked : c.pc = "sleep"}) :
                    proc' = [proc EXCEPT ![p] = mine]
           \/ /\ top.pc = "check"
              /\ \E mine \in Slept({RelaunchStep(c, raises, launched) :
                                c \in {c \in checked : c.pc = "relaunch"},
                                raises \in BOOLEAN,
                                launched \in LaunchResults}),
                    targets \in {RelaunchTargets(p, listed) :
                                    listed \in SUBSET LivePids} :
                    proc' = AfterRelaunch(p, mine, targets)
    /\ UNCHANGED <<pidFile, nInvoked, lastPid, raced, calc>>

\* _run returns, start() returns, the interpreter exits and runs the
\* atexit hook _remove_pid (an exception of a hook is printed, not raised)
ExitHook(p) ==
    /\ proc[p].pc = "exiting"
    /\ pidFile' = IF proc[p].atexit /\ RemoveResult(p) = "ok" THEN NoFile
                  ELSE pidFile
    /\ proc' = [proc EXCEPT ![p] = FreeProc]
    /\ UNCHANGED <<nInvoked, lastPid, raced, calc>>

(***************************************************************************)
(* stop()                                                                  *)
(***************************************************************************)
\* pid = self._get_pid(); 0 ends stop() with "Daemon is not running."
StopRead(p) ==
    /\ proc[p].pc = "t_read"
    /\ proc' = [proc EXCEPT ![p] =
                  IF get_pid = 0 THEN FreeProc
                  ELSE [@ EXCEPT !.pc = "t_term", !.rpid = get_pid]]
    /\ raced' = (raced \/ \E q \in Pids \ {p} : InWindow(q))
    /\ UNCHANGED <<pidFile, nInvoked, lastPid, calc>>

\* os.kill(pid, signal.SIGTERM); an OSError skips to _remove_pid
StopTerm(p) ==
    /\ proc[p].pc = "t_term"
    /\ proc' = IF KillResult(p, proc[p].rpid) = "ok"
               THEN Deliver([proc EXCEPT ![p].pc = "t_poll"],
                            proc[p].rpid, "TERM")
               ELSE [proc EXCEPT ![p].pc = "t_remove", ![p].rpid = 0]
    /\ UNCHANGED <<pidFile, nInvoked, lastPid, raced, calc>>

\* variant of AfterPoll: the end of the wait kills whatever the last
\* poll said
AfterPoll_Impatient(r, polls) ==
    IF polls + 1 >= MaxPolls THEN "t_kill"
    ELSE IF r # "ok" THEN "t_remove"
    ELSE "t_poll"

\* where stop() is after a poll that ended as r, `polls` polls before it:
\* `except OSError: break`, the else of the exhausted for, or the next poll
AfterPoll(r, polls) ==
    IF r # "ok" THEN "t_remove"
    ELSE IF polls + 1 >= MaxPolls THEN "t_kill"
    ELSE "t_poll"

\* one iteration of `for _ in range(30)`: os.kill(pid, 0), then a short
\* sleep; an OSError breaks out, and the exhausted loop runs its else
StopPoll(p) ==
    /\ proc[p].pc = "t_poll"
    /\ LET to == AfterPoll(KillResult(p, proc[p].rpid), proc[p].polls)
       IN  proc' = [proc EXCEPT ![p] =
                      IF to = "t_remove"
                      THEN [@ EXCEPT !.pc = to, !.polls = 0, !.rpid = 0]
                      ELSE IF to = "t_kill"
                      THEN [@ EXCEPT !.pc = to, !.polls = 0]
                      ELSE [@ EXCEPT !.polls = @ + 1]]
    /\ UNCHANGED <<pidFile, nInvoked, lastPid, raced, calc>>

\* os.kill(pid, signal.SIGKILL) of the for-else
StopKill(p) ==
    /\ proc[p].pc = "t_kill"
    /\ proc' = IF KillResult(p, proc[p].rpid) = "ok"
               THEN Deliver([proc EXCEPT ![p].pc = "t_remove", ![p].rpid = 0],
                            proc[p].rpid, "KILL")
               ELSE [proc EXCEPT ![p].pc = "t_remove", ![p].rpid = 0]
    /\ UNCHANGED <<pidFile, nInvoked, lastPid, raced, calc>>

\* self._remove_pid() that ends stop(); a PermissionError escapes stop()
StopRemove(p) ==
    /\ proc[p].pc = "t_remove"
    /\ pidFile' = IF RemoveResult(p) = "ok" THEN NoFile ELSE pidFile
    /\ proc' = [proc EXCEPT ![p] = FreeProc]
    /\ UNCHANGED <<nInvoked, lastPid, raced, calc>>

(***************************************************************************)
(* status()                                                                *)
(***************************************************************************)
StatusPcs == {"q_read", "q_reread", "q_probe", "q_unlink"}

\* main: a new process runs `status`, with no other status or stop
\* command in flight
InvokeStatus(p) ==
    /\ p = NextPid
    /\ nInvoked < MaxInvocations
    /\ ~\E q \in Pids : proc[q].pc \in StopPcs \cup StatusPcs
    /\ \E u \in Uids :
          proc' = [proc EXCEPT ![p] =
                     [FreeProc EXCEPT !.pc = "q_read", !.uid = u]]
    /\ nInvoked' = nInvoked + 1
    /\ lastPid' = p
    /\ UNCHANGED <<pidFile, raced, calc>>

\* pid = self._get_pid(); 0 is reported as "Daemon is not running."
StatusRead(p) ==
    /\ proc[p].pc = "q_read"
    /\ proc' = [proc EXCEPT ![p] =
                  IF get_pid = 0 THEN FreeProc
                  ELSE [@ EXCEPT !.pc = "q_reread", !.rpid = get_pid]]
    /\ UNCHANGED <<pidFile, nInvoked, lastPid, raced, calc>>

\* status -> _is_running -> _get_pid once more; 0 makes _is_running
\* answer False, reported as "not running (stale PID file cleaned up)"
StatusReread(p) ==
    /\ proc[p].pc = "q_reread"
    /\ proc' = [proc EXCEPT ![p] =
                  IF get_pid = 0 THEN FreeProc
                  ELSE [@ EXCEPT !.pc = "q_probe", !.rpid = get_pid]]
    /\ UNCHANGED <<pidFile, nInvoked, lastPid, raced, calc>>

\* what status() reports once os.kill(pid, 0) ended as r
StatusReport(r) == IF ProbeSaysRunning(r) THEN "running" ELSE "stale"

\* status -> _is_running -> os.kill(pid, 0); "running with PID" ends it
StatusProbe(p) ==
    /\ proc[p].pc = "q_probe"
    /\ proc' = [proc EXCEPT ![p] =
                  IF StatusReport(KillResult(p, proc[p].rpid)) = "running"
                  THEN FreeProc
                  ELSE [@ EXCEPT !.pc = "q_unlink"]]
    /\ UNCHANGED <<pidFile, nInvoked, lastPid, raced, calc>>

\* status -> _is_running -> _remove_pid, then the "stale" report; a
\* PermissionError ends the command without a report
StatusUnlink(p) ==
    /\ proc[p].pc = "q_unlink"
    /\ pidFile' = IF RemoveResult(p) = "ok" THEN NoFile ELSE pidFile
    /\ proc' = [proc EXCEPT ![p] = FreeProc]
    /\ UNCHANGED <<nInvoked, lastPid, raced, calc>>

\* the steps of start(), stop() and the exit of a daemon
Lifecycle(p) ==
    \/ StartRead(p)
    \/ StartProbe(p)
    \/ StartUnlink(p)
    \/ Fork(p)
    \/ StartWrite(p)
    \/ StartSignals(p)
    \/ StartRun(p)
    \/ ExitHook(p)
    \/ StopRead(p)
    \/ StopTerm(p)
    \/ StopPoll(p)
    \/ StopKill(p)
    \/ StopRemove(p)

(***************************************************************************)
(* Spec: any commands by any users, in any interleaving of their system    *)
(* calls; a daemon's loop iteration is one step.                           *)
(***************************************************************************)
Next ==
    \E p \in Pids :
        \/ Invoke(p)
        \/ Lifecycle(p)
        \/ Iteration(p)

Spec == Init /\ [][Next]_vars

(***************************************************************************)
(* LoopSpec: the inside of the poll loop, step by step, of one daemon at a *)
(* time, with at most one stop or status command in flight.                *)
(***************************************************************************)
InvokeAlone(p) ==
    /\ Invoke(p)
    /\ proc'[p].pc = "s_read" =>
          ~\E q \in Pids : proc[q].pc \in StartPcs \cup LoopPcs \cup {"exiting"}
    /\ proc'[p].pc = "t_read" =>
          ~\E q \in Pids : proc[q].pc \in StopPcs \cup StatusPcs

LoopNext ==
    \E p \in Pids :
        \/ InvokeAlone(p)
        \/ InvokeStatus(p)
        \/ StatusRead(p)
        \/ StatusReread(p)
        \/ StatusProbe(p)
        \/ StatusUnlink(p)
        \/ Lifecycle(p)
        \/ LoopTop(p)
        \/ CheckAndUpdate(p)
        \/ Relaunch(p)
        \/ Sleep(p)

LoopSpec == Init /\ [][LoopNext]_vars

\* time.sleep(60) returns and the code between two calls runs on: a daemon
\* at a tick boundary takes its next step
TickStep(p) == LoopTop(p) \/ Sleep(p) \/ ExitHook(p)

FairLoopSpec == LoopSpec /\ \A p \in Pids : WF_vars(TickStep(p))

\* the external calls of check_and_update, and whether the code gives
\* each a timeout
CheckCalls ==
    {[call |-> "urlopen_version", timeout |-> TRUE],
     [call |-> "urlopen_download", timeout |-> TRUE],
     [call |-> "apt_get_update", timeout |-> TRUE],
     [call |-> "apt_get_install", timeout |-> TRUE],
     [call |-> "dpkg_install", timeout |-> TRUE],
     [call |-> "apt_get_fix", timeout |-> TRUE],
     [call |-> "notify_send", timeout |-> TRUE]}

\* the external calls of _restart_myapp, likewise; Popen does not wait
RelaunchCalls ==
    {[call |-> "loginctl_list_sessions", timeout |-> FALSE],
     [call |-> "loginctl_show_session", timeout |-> FALSE],
     [call |-> "stat_x_socket", timeout |-> FALSE],
     [call |-> "notify_send", timeout |-> TRUE],
     [call |-> "pgrep_old", timeout |-> FALSE],
     [call |-> "xhost", timeout |-> TRUE],
     [call |-> "mechanism", timeout |-> TRUE],
     [call |-> "pgrep_rescan", timeout |-> FALSE],
     [call |-> "popen_fallback", timeout |-> TRUE]}

\* every call of the set returns: each is bounded by its timeout
Returns(calls) == \A c \in calls : c.timeout

(***************************************************************************)
(* TimedLoopSpec: FairLoopSpec, and every call that has a timeout returns  *)
(* within it: a part of the cycle is taken to end when all its calls are   *)
(* bounded.                                                                *)
(***************************************************************************)
TimedLoopSpec ==
    /\ FairLoopSpec
    /\ \A p \in Pids :
          /\ WF_vars(Returns(CheckCalls) /\ CheckAndUpdate(p))
          /\ WF_vars(Returns(RelaunchCalls) /\ Relaunch(p))

(***************************************************************************)
(* Text: a string is the sequence of its characters.                       *)
(***************************************************************************)
DigitChars == <<"0", "1", "2", "3", "4", "5", "6", "7", "8", "9">>
IsDigit(c) == \E i \in 1..Len(DigitChars) : DigitChars[i] = c
DigitVal(c) == (CHOOSE i \in 1..Len(DigitChars) : DigitChars[i] = c) - 1
IsSpace(c) == c = " "

\* str.lstrip(): without the leading white space
RECURSIVE LStrip(_)
LStrip(s) ==
    IF s # <<>> /\ IsSpace(Head(s)) THEN LStrip(Tail(s)) ELSE s

\* str.rstrip(): without the trailing white space
RECURSIVE RStrip(_)
RStrip(s) ==
    IF s # <<>> /\ IsSpace(s[Len(s)]) THEN RStrip(SubSeq(s, 1, Len(s) - 1))
    ELSE s

\* str.strip()
Strip(s) == RStrip(LStrip(s))

\* the number a non-empty run of decimal digits writes
RECURSIVE DigitsVal(_)
DigitsVal(s) ==
    IF Len(s) = 1 THEN DigitVal(s[1])
    ELSE 10 * DigitsVal(SubSeq(s, 1, Len(s) - 1)) + DigitVal(s[Len(s)])

AllDigits(s) == s # <<>> /\ \A i \in 1..Len(s) : IsDigit(s[i])

\* int(s): white space around the number is skipped, a sign is allowed,
\* anything else is a ValueError (ok = FALSE)
ParseInt(s) ==
    LET t == Strip(s)
    IN  IF AllDigits(t) THEN [ok |-> TRUE, val |-> DigitsVal(t)]
        ELSE IF t # <<>> /\ Head(t) \in {"-", "+"} /\ AllDigits(Tail(t))
        THEN [ok |-> TRUE,
              val |-> IF Head(t) = "-" THEN 0 - DigitsVal(Tail(t))
                      ELSE DigitsVal(Tail(t))]
        ELSE [ok |-> FALSE, val |-> 0]

\* str(n) of a non-negative integer
RECURSIVE IntText(_)
IntText(n) ==
    IF n < 10 THEN <<DigitChars[n + 1]>>
    ELSE IntText(n \div 10) \o <<DigitChars[(n % 10) + 1]>>

\* every text of at most n characters of the alphabet
RECURSIVE TextsUpTo(_, _)
TextsUpTo(alphabet, n) ==
    IF n = 0 THEN {<<>>}
    ELSE LET shorter == TextsUpTo(alphabet, n - 1)
         IN  shorter \cup {<<c>> \o t : c \in alphabet, t \in shorter}

(***************************************************************************)
(* version_utils: version texts, parse, compare, format.                   *)
(***************************************************************************)
\* largest small version number; parsing and formatting also look at one
\* number of two digits
MaxVer == 1
SmallNums == 0..MaxVer
VerNums == SmallNums \cup {10}

\* str.lstrip(c): without the leading run of the character c
RECURSIVE LStripChar(_, _)
LStripChar(s, c) ==
    IF s # <<>> /\ Head(s) = c THEN LStripChar(Tail(s), c) ELSE s

\* str.split(c): the pieces between the occurrences of c, at least one
RECURSIVE Split(_, _)
Split(s, c) ==
    IF \A i \in 1..Len(s) : s[i] # c THEN <<s>>
    ELSE LET k == CHOOSE i \in 1..Len(s) :
                     s[i] = c /\ \A j \in 1..(i - 1) : s[j] # c
         IN  <<SubSeq(s, 1, k - 1)>> \o Split(SubSeq(s, k + 1, Len(s)), c)

\* the numbers of ns written with dots between them
RECURSIVE Dotted(_)
Dotted(ns) ==
    IF Len(ns) = 1 THEN IntText(ns[1])
    ELSE Dotted(SubSeq(ns, 1, Len(ns) - 1)) \o <<".">> \o IntText(ns[Len(ns)])

\* the texts of the grammar [v]MAJOR[.MINOR[.PATCH]][-RELEASE] over the
\* numbers nums, alone or with white space before or after
VersionTextsOver(nums) ==
    {pad[1] \o v \o Dotted(ns) \o rel \o pad[2] :
        pad \in {<<<<>>, <<>>>>, <<<<" ">>, <<>>>>, <<<<>>, <<" ">>>>},
        v \in {<<>>, <<"v">>},
        ns \in UNION {[1..n -> nums] : n \in 1..3},
        rel \in {<<>>} \cup {<<"-">> \o IntText(r) : r \in nums}}

VersionTexts == VersionTextsOver(VerNums)

\* some texts outside the grammar
MalformedTexts ==
    {<<>>, <<"v">>, <<"1", "-">>, <<"1", ".", ".", "0">>, <<"1", ".", "x">>,
     <<"-", "1">>}

\* texts with more than the grammar has: a fourth or fifth dotted
\* component, a second dash
OverlongTexts ==
    {<<"1", ".", "0", ".", "0">> \o tail :
        tail \in {<<".", "1">>, <<".", "x">>, <<".", "0", ".", "x">>,
                  <<"-", "1", "-", "2">>, <<"-", "1", "-", "x">>,
                  <<".", "x", "-", "1">>, <<"-", "1", "-">>}}

\* version tuples of non-negative numbers
VersionTuples == [1..4 -> VerNums]

\* version_utils.parse_version; ok = FALSE is the ValueError of an int()
parse_version(version_string) ==
    LET version == LStripChar(Strip(version_string), "v")
        parts == Split(version, "-")
        main_version == parts[1]
        zero == [ok |-> TRUE, val |-> 0]
        release == IF Len(parts) > 1 THEN ParseInt(parts[2]) ELSE zero
        version_parts == Split(main_version, ".")
        major == ParseInt(version_parts[1])
        minor == IF Len(version_parts) > 1 THEN ParseInt(version_parts[2])
                 ELSE zero
        patch == IF Len(version_parts) > 2 THEN ParseInt(version_parts[3])
                 ELSE zero
    IN  IF release.ok /\ major.ok /\ minor.ok /\ patch.ok
        THEN [ok |-> TRUE,
              tuple |-> <<major.val, minor.val, patch.val, release.val>>]
        ELSE [ok |-> FALSE, tuple |-> <<>>]

TupleLess_MainOnly(a, b) ==
    \E i \in 1..3 : a[i] < b[i] /\ \A j \in 1..(i - 1) : a[j] = b[j]

\* the < of two tuples of the same length
TupleLess(a, b) ==
    \E i \in 1..Len(a) : a[i] < b[i] /\ \A j \in 1..(i - 1) : a[j] = b[j]

\* version_utils.compare_versions; raised = TRUE when a parse raised
compare_versions(current, latest) ==
    LET current_tuple == parse_version(current)
        latest_tuple == parse_version(latest)
    IN  IF ~current_tuple.ok \/ ~latest_tuple.ok
        THEN [raised |-> TRUE, value |-> 0]
        ELSE [raised |-> FALSE,
              value |-> IF TupleLess(current_tuple.tuple, latest_tuple.tuple)
                        THEN -1
                        ELSE IF TupleLess(latest_tuple.tuple,
                                          current_tuple.tuple)
                        THEN 1
                        ELSE 0]

\* version_utils.is_update_available
is_update_available(current, latest) ==
    LET c == compare_versions(current, latest)
    IN  [raised |-> c.raised, value |-> ~c.raised /\ c.value < 0]

format_version_NoRelease(major, minor, patch, release) ==
    Dotted(<<major, minor, patch>>)

\* version_utils.format_version, of non-negative numbers
format_version(major, minor, patch, release) ==
    IF release > 0
    THEN Dotted(<<major, minor, patch>>) \o <<"-">> \o IntText(release)
    ELSE Dotted(<<major, minor, patch>>)

(***************************************************************************)
(* _get_pid on every state of the PID file.                                *)
(***************************************************************************)
\* length of the PID-file contents looked at
MaxPidText == 3

\* the PID file as _get_pid finds it: absent; there but not readable by
\* the caller (open raises PermissionError); or readable with some text
PidFileStates ==
    {[kind |-> "absent", text |-> <<>>], [kind |-> "unreadable", text |-> <<>>]}
    \cup {[kind |-> "file", text |-> t] :
             t \in TextsUpTo({"1", "2", " ", "x"}, MaxPidText)}

\* UpdateDaemon._get_pid: FileNotFoundError and ValueError become 0, any
\* other exception of open() or read() leaves the function
read_pid(f) ==
    IF f.kind = "absent" THEN [raised |-> FALSE, value |-> 0]
    ELSE IF f.kind = "unreadable" THEN [raised |-> TRUE, value |-> 0]
    ELSE LET r == ParseInt(Strip(f.text))
         IN  [raised |-> FALSE, value |-> IF r.ok THEN r.val ELSE 0]

(***************************************************************************)
(* FnSpec: the functions that do not depend on the processes, each called  *)
(* on its own with every argument of a bounded set; `calc` holds the last  *)
(* call.                                                                   *)
(***************************************************************************)
\* the launch part of _restart_myapp
CallLaunch ==
    /\ calc = NoCalc
    /\ \E s \in Sessions, outs \in LaunchOutcomes, fb \in {"ok", "error"} :
          calc' = [fn |-> "launch", session |-> s, outs |-> outs, fb |-> fb,
                   out |-> launch(s, outs, fb)]
    /\ UNCHANGED <<proc, pidFile, nInvoked, lastPid, raced>>

\* the PIDs of a set in the order pgrep prints them
RECURSIVE Ascending(_)
Ascending(S) ==
    IF S = {} THEN <<>>
    ELSE LET m == CHOOSE x \in S : \A y \in S : x <= y
         IN  <<m>> \o Ascending(S \ {m})

\* variant of KillsAttempted: the first os.kill that raises ends the loop
RECURSIVE KillsAttempted_AbortOnFailure(_, _)
KillsAttempted_AbortOnFailure(pids, failing) ==
    IF pids = <<>> THEN <<>>
    ELSE IF Head(pids) \in failing THEN <<Head(pids)>>
    ELSE <<Head(pids)>> \o KillsAttempted_AbortOnFailure(Tail(pids), failing)

\* `for pid in pids: ... try: os.kill(int(pid), signal.SIGTERM) except:
\* pass`: the PIDs os.kill is called for, `failing` being those it raises
\* for
RECURSIVE KillsAttempted(_, _)
KillsAttempted(pids, failing) ==
    IF pids = <<>> THEN <<>>
    ELSE <<Head(pids)>> \o KillsAttempted(Tail(pids), failing)

\* what _restart_myapp does from the pgrep on, in program order, as daemon
\* `self`: the SIGTERMs (none when pgrep itself raised), time.sleep(3),
\* the launch attempts
restart_events(self, listed, failing, pgrepRaises, launched) ==
    LET pids == IF pgrepRaises THEN <<>>
                ELSE KillsAttempted(Ascending(RelaunchTargets(self, listed)),
                                    failing)
    IN  [i \in 1..Len(pids) |->
            [ev |-> "TERM", pid |-> pids[i], how |-> "kill"]]
        \o <<[ev |-> "settle", pid |-> 0, how |-> "sleep"]>>
        \o [i \in 1..Len(launched.attempts) |->
               [ev |-> "launch", pid |-> 0, how |-> launched.attempts[i]]]

\* the PIDs pgrep can list: the daemon's and those of other processes of
\* the machine
ListedPids == 1..(NProc + 1)

\* _restart_myapp from the pgrep on, run by the daemon with the lowest PID
CallRestart ==
    /\ calc = NoCalc
    /\ \E listed \in SUBSET ListedPids, pgrepRaises \in BOOLEAN,
          launched \in LaunchResults :
          \E failing \in SUBSET listed :
             calc' = [fn |-> "restart", self |-> 1, listed |-> listed,
                      failing |-> failing, pgrepRaises |-> pgrepRaises,
                      out |-> restart_events(1, listed, failing, pgrepRaises,
                                             launched)]
    /\ UNCHANGED <<proc, pidFile, nInvoked, lastPid, raced>>

\* what the re-scan `pgrep -f "myapp.*main.py"` after mechanism i finds:
\* a process that matched before the launch (an old instance that
\* outlived SIGTERM and the settle wait, or the daemon itself, which the
\* re-scan does not take out), or an instance a mechanism started whose
\* command line matches the pattern
RescanFinds(i, starts, matching, lingering) ==
    lingering \/ \E j \in 1..i : starts[j] /\ matching[j]

\* the mechanism loop when mechanism i starts the application or not
\* (starts[i]), an instance it starts matches the re-scan pattern or not
\* (matching[i]), and a matching process was there all along (lingering)
\* or not: the mechanisms run, the one counted as the success, and the
\* mechanisms among those run that started an instance
rescan_launch(starts, matching, lingering) ==
    LET outs == [i \in 1..Len(Mechanisms) |->
                    IF RescanFinds(i, starts, matching, lingering)
                    THEN "live" ELSE "none"]
        ran == Attempts(1, outs)
    IN  [attempts |-> ran,
         won |-> Winner(1, outs),
         started |-> {i \in 1..Len(ran) : starts[i]}]

\* the mechanism loop for every course of the launches and the re-scans
CallRescan ==
    /\ calc = NoCalc
    /\ \E starts \in [1..Len(Mechanisms) -> BOOLEAN],
          matching \in [1..Len(Mechanisms) -> BOOLEAN],
          lingering \in BOOLEAN :
          calc' = [fn |-> "rescan", starts |-> starts, matching |-> matching,
                   lingering |-> lingering,
                   out |-> rescan_launch(starts, matching, lingering)]
    /\ UNCHANGED <<proc, pidFile, nInvoked, lastPid, raced>>

\* variant of AfterFork: the parent of a fork does not exit
AfterFork_ParentStays(outcome, side) ==
    IF outcome = "fail" THEN "exit1" ELSE "continues"

\* one `try: pid = os.fork(); if pid > 0: sys.exit(0) except OSError:
\* sys.exit(1)` of _daemonize, seen from one side of the fork: what the
\* process does next
AfterFork(outcome, side) ==
    IF outcome = "fail" THEN "exit1"
    ELSE IF side = "parent" THEN "exit0"
    ELSE "continues"

\* start(daemon=True) from _daemonize on, for the two forks ending as
\* fork1 and fork2: what becomes of the launcher, of the first child and
\* of the second child ("never": the process does not come to be), and
\* which of them call _write_pid and _run
start_detached(fork1, fork2) ==
    LET launcher == AfterFork(fork1, "parent")
        child1 == IF fork1 = "fail" THEN "never"
                  ELSE IF AfterFork(fork1, "child") # "continues"
                  THEN AfterFork(fork1, "child")
                  ELSE AfterFork(fork2, "parent")
        child2 == IF fork1 = "fail" \/ fork2 = "fail" THEN "never"
                  ELSE AfterFork(fork2, "child")
        launcher2 == IF launcher = "continues"
                     THEN AfterFork(fork2, "parent") ELSE launcher
        fate == [launcher |-> launcher2, child1 |-> child1, child2 |-> child2]
    IN  [fate |-> fate,
         writers |-> {r \in {"launcher", "child1", "child2"} :
                         fate[r] = "continues"}]

\* start(daemon=True) for every way the two forks can end
CallStartDetached ==
    /\ calc = NoCalc
    /\ \E fork1 \in {"ok", "fail"}, fork2 \in {"ok", "fail"} :
          calc' = [fn |-> "start_detached", fork1 |-> fork1, fork2 |-> fork2,
                   out |-> start_detached(fork1, fork2)]
    /\ UNCHANGED <<proc, pidFile, nInvoked, lastPid, raced>>

\* one direct-package install attempt, for every way its download and its
\* two commands can end
CallInstallDeb ==
    /\ calc = NoCalc
    /\ \E download \in Downloads, rcDpkg \in RC, rcFix \in RC :
          calc' = [fn |-> "install_via_deb", download |-> download,
                   rcDpkg |-> rcDpkg, rcFix |-> rcFix,
                   events |-> deb_events(download, rcDpkg, rcFix),
                   out |-> install_via_deb(download, rcDpkg, rcFix)]
    /\ UNCHANGED <<proc, pidFile, nInvoked, lastPid, raced>>

\* the search for the desktop user, for every way the probes can end
CallLocate ==
    /\ calc = NoCalc
    /\ \E outs \in ProbeOutcomes :
          calc' = [fn |-> "locate", outs |-> outs, out |-> locate_user(outs)]
    /\ UNCHANGED <<proc, pidFile, nInvoked, lastPid, raced>>

\* the environment a mechanism launch builds for a located session
CallLaunchEnv ==
    /\ calc = NoCalc
    /\ \E s \in {x \in Sessions : UsesMechanisms(x)}, exists \in XauthExists :
          calc' = [fn |-> "launch_env", session |-> s, exists |-> exists,
                   out |-> launch_env(s, exists)]
    /\ UNCHANGED <<proc, pidFile, nInvoked, lastPid, raced>>

\* _get_pid
CallGetPid ==
    /\ calc = NoCalc
    /\ \E f \in PidFileStates :
          calc' = [fn |-> "get_pid", file |-> f, out |-> read_pid(f)]
    /\ UNCHANGED <<proc, pidFile, nInvoked, lastPid, raced>>

\* one call of check_and_update(auto_install), with the server's answer
\* and the ends of the installer's commands as inputs
CallCheckAndUpdate ==
    /\ calc = NoCalc
    /\ \E auto \in BOOLEAN, fetch \in Fetch, download \in {"ok", "error"},
          rc1 \in RC, rc2 \in RC :
          calc' = [fn |-> "check_and_update", auto_install |-> auto,
                   fetch |-> fetch,
                   installer |->
                      install_update(check_for_update(fetch).latest_known,
                                     download, rc1, rc2),
                   out |-> check_and_update(auto, fetch, download, rc1, rc2)]
    /\ UNCHANGED <<proc, pidFile, nInvoked, lastPid, raced>>

\* a text over the small numbers, or one outside the grammar, compared
\* with a formatted version in both orders and with itself
CallCompare ==
    /\ calc = NoCalc
    /\ \E a \in VersionTextsOver(SmallNums) \cup MalformedTexts,
          t \in [1..4 -> SmallNums] :
          LET b == format_version(t[1], t[2], t[3], t[4])
          IN  calc' = [fn |-> "compare", a |-> a, b |-> b,
                       ab |-> compare_versions(a, b),
                       ba |-> compare_versions(b, a),
                       aa |-> compare_versions(a, a),
                       available |-> is_update_available(a, b)]
    /\ UNCHANGED <<proc, pidFile, nInvoked, lastPid, raced>>

\* parse a text, format what came out, parse again
CallRoundTrip ==
    /\ calc = NoCalc
    /\ \E s \in VersionTexts \cup MalformedTexts :
          LET t == parse_version(s)
              text == IF t.ok
                      THEN format_version(t.tuple[1], t.tuple[2],
                                          t.tuple[3], t.tuple[4])
                      ELSE <<>>
          IN  calc' = [fn |-> "round_trip", s |-> s, parsed |-> t,
                       text |-> text,
                       again |-> IF t.ok THEN parse_version(text) ELSE t]
    /\ UNCHANGED <<proc, pidFile, nInvoked, lastPid, raced>>

\* parse one text: of the grammar, malformed, or overlong
CallParse ==
    /\ calc = NoCalc
    /\ \E s \in VersionTexts \cup MalformedTexts \cup OverlongTexts :
          calc' = [fn |-> "parse", s |-> s, out |-> parse_version(s)]
    /\ UNCHANGED <<proc, pidFile, nInvoked, lastPid, raced>>

\* format a tuple and parse the text
CallFormat ==
    /\ calc = NoCalc
    /\ \E t \in VersionTuples :
          LET text == format_version(t[1], t[2], t[3], t[4])
          IN  calc' = [fn |-> "format", tuple |-> t, text |-> text,
                       parsed |-> parse_version(text)]
    /\ UNCHANGED <<proc, pidFile, nInvoked, lastPid, raced>>

FnNext ==
    \/ CallLaunch
    \/ CallStartDetached
    \/ CallInstallDeb
    \/ CallRescan
    \/ CallRestart
    \/ CallLocate
    \/ CallLaunchEnv
    \/ CallGetPid
    \/ CallCheckAndUpdate
    \/ CallCompare
    \/ CallRoundTrip
    \/ CallParse
    \/ CallFormat

\* no command has run and there is no PID file: the functions are called
\* on their arguments alone
FnInit == Init /\ ~pidFile.exists

FnSpec == FnInit /\ [][FnNext]_vars

(***************************************************************************)
(* Properties.                                                             *)
(***************************************************************************)
Daemons == {p \in Pids : InLoop(p)}

C2_StartIdempotent ==
    [][\A p \in Pids :
          (/\ StartProbe(p)
           /\ get_pid = proc[p].rpid
           /\ InLoop(proc[p].rpid))
          => (proc'[p] = FreeProc /\ pidFile' = pidFile)]_vars

\* C3: when the PID file holds the PID of a process that does not exist,
\* the _remove_pid of _is_running leaves the file absent and raises
\* nothing, so that start() goes on past the check.
C3_StaleSelfHealing ==
    [][\A p \in Pids :
          (/\ StartUnlink(p)
           /\ get_pid = proc[p].rpid
           /\ ~Alive(proc[p].rpid))
          => (~pidFile'.exists /\ proc'[p].pc = AfterCheck(p))]_vars

\* C4: whenever the process _is_running probes exists, whether or not the
\* caller may signal it, _is_running answers True (and so removes nothing).
C4_ExistingProcessIsRunning ==
    \A p \in Pids :
        (proc[p].pc = "s_probe" /\ Alive(proc[p].rpid))
        => ProbeSaysRunning(KillResult(p, proc[p].rpid))

\* a daemon between two iterations of its loop: at the while test or in
\* time.sleep(60)
AtTick(p) == proc[p].pc \in {"loop", "sleep"}

C6_FailedCheckKeepsRunning ==
    [][\A p \in Pids :
          (/\ CheckAndUpdate(p) \/ Relaunch(p)
           /\ proc'[p].cyc.checkFailed \/ proc'[p].cyc.raised)
          => (/\ proc'[p].pc = "sleep"
              /\ proc'[p].elapsed = 0
              /\ proc'[p].running = proc[p].running)]_vars

\* a daemon asleep after a failed check, still running, last_check moved
C6_Witness ==
    \E p \in Pids :
        /\ proc[p].pc = "sleep"
        /\ proc[p].cyc.checkFailed
        /\ proc[p].running
        /\ proc[p].elapsed = 0

\* C7: no step of a cycle ends the daemon or clears its flag (the relaunch
\* signals other processes only, and an error of the cycle stays inside
\* the loop), and a daemon's own step leaves the loop only with the flag
\* cleared.
C7_CycleNeverTerminates ==
    [][\A p \in Pids :
          /\ (CheckAndUpdate(p) \/ Relaunch(p))
             => (/\ proc'[p].pc \in LoopPcs
                 /\ proc'[p].running = proc[p].running)
          /\ ((LoopTop(p) \/ Sleep(p)) /\ proc'[p].pc \notin LoopPcs)
             => ~proc[p].running]_vars

\* a daemon went through _restart_myapp, which returned, and runs on
C7_Witness ==
    \E p \in Pids :
        /\ proc[p].pc = "sleep"
        /\ proc[p].cyc.relaunchCalls = 1
        /\ ~proc[p].cyc.raised
        /\ proc[p].running

\* C8: a cycle calls _restart_myapp once when check_and_update answered
\* True and not at all when it answered False or raised.
C8_RelaunchExactlyOnce ==
    \A p \in Pids :
        /\ proc[p].pc = "relaunch"
           => (proc[p].cyc.updated /\ proc[p].cyc.relaunchCalls = 0)
        /\ (proc[p].pc = "sleep" /\ proc[p].cyc.ran)
           => proc[p].cyc.relaunchCalls = IF proc[p].cyc.updated THEN 1 ELSE 0

\* a finished cycle that installed an update and relaunched once
C8_Witness ==
    \E p \in Pids :
        /\ proc[p].pc = "sleep"
        /\ proc[p].cyc.updated
        /\ proc[p].cyc.relaunchCalls = 1

\* C9: in a cycle whose install command exited non-zero or timed out,
\* check_and_update answers False and _restart_myapp is not called.
C9_InstallerFailureAbandons ==
    \A p \in Pids :
        proc[p].cyc.cmdFailed
        => (/\ ~proc[p].cyc.updated
            /\ proc[p].cyc.relaunchCalls = 0
            /\ proc[p].pc # "relaunch")

\* C10: the _remove_pid that ends a stop() which read a non-zero PID
\* leaves the PID file absent, however the signals went.
C10_StopRemovesPidFile ==
    [][\A p \in Pids : StopRemove(p) => ~pidFile'.exists]_vars

\* C11: a stop() that finds no PID file returns at once: no process is
\* signalled or otherwise touched, nothing is raised (the command ends
\* normally) and the PID file stays absent.
C11_StopNotRunningNoOp ==
    [][\A p \in Pids :
          (StopRead(p) /\ ~pidFile.exists)
          => (/\ proc' = [proc EXCEPT ![p] = FreeProc]
              /\ pidFile' = pidFile)]_vars

\* a stop() about to read the PID file, which is absent, while another
\* process is there to be signalled
C11_Witness ==
    \E p \in Pids, q \in Pids :
        /\ proc[p].pc = "t_read"
        /\ ~pidFile.exists
        /\ q # p
        /\ Alive(q)

\* C12: whichever way a daemon that wrote the PID file and registered
\* its exit hook ends, no PID file naming it is left when it is gone.
C12_PidFileRemovedOnExit ==
    [][\A p \in Pids :
          (proc[p].atexit /\ ~Alive(p)')
          => ~(pidFile'.exists /\ pidFile'.content = p)]_vars

\* C13: with a located user name the launch runs runuser, sudo, su in
\* that order and never the direct fallback; each one only when no earlier
\* one left a live matching process, and none after the first that did.
C13_MechanismOrder ==
    (calc.fn = "launch" /\ calc.session.user # "none")
    => LET tried == calc.out.attempts
           n == Len(tried)
       IN  /\ n >= 1
           /\ tried = SubSeq(Mechanisms, 1, n)
           /\ \A i \in 1..n : calc.outs[i] = "live" <=> (i = n /\ calc.out.won = Mechanisms[i])
           /\ n < Len(Mechanisms) => calc.outs[n] = "live"

\* C14: with no user located the launch is one direct start of
\* /usr/bin/myapp and no mechanism, and a failure of that start is logged,
\* not raised.
C14_DirectFallback ==
    (calc.fn = "launch" /\ calc.session.user = "none")
    => (/\ calc.out.attempts = <<"direct">>
        /\ ~calc.out.raised
        /\ calc.out.errors = IF calc.fb = "error" THEN 1 ELSE 0)

\* the direct start was tried with no user located, and failed
C14_Witness ==
    /\ calc.fn = "launch"
    /\ calc.session.user = "none"
    /\ calc.fb = "error"
    /\ calc.out.attempts = <<"direct">>

\* C15: when the three mechanisms were all tried and none left a live
\* matching process, _restart_myapp logged one error and returned, and the
\* daemon is still running, on its way to the next tick.
C15_ExhaustionNotFatal ==
    \A p \in Pids :
        (/\ proc[p].cyc.relaunchCalls = 1
         /\ proc[p].cyc.launch.attempts = Mechanisms
         /\ proc[p].cyc.launch.won = "none")
        => (/\ proc[p].cyc.launch.errors = 1
            /\ ~proc[p].cyc.launch.raised
            /\ ~proc[p].cyc.raised
            /\ proc[p].pc = "sleep")

\* a daemon whose relaunch ran out of mechanisms sleeps, still running
C15_Witness ==
    \E p \in Pids :
        /\ proc[p].pc = "sleep"
        /\ proc[p].running
        /\ proc[p].cyc.launch.attempts = Mechanisms
        /\ proc[p].cyc.launch.won = "none"

\* C16: _get_pid returns an integer and raises nothing whatever the
\* state of the PID file, and returns 0 when the file is absent or its
\* text is not an integer.
C16_ReadPidTotal ==
    calc.fn = "get_pid"
    => (/\ ~calc.out.raised
        /\ (calc.file.kind = "absent" \/ ~ParseInt(calc.file.text).ok)
           => calc.out.value = 0)

\* C17: status() reports "running" and leaves the PID file as it is when
\* the recorded PID names a live process, and reports "stale" with the
\* PID file removed when it names a dead one; it changes no other process.
C17_StatusOutcomes ==
    [][\A p \in Pids :
          /\ (StatusProbe(p) /\ Alive(proc[p].rpid))
             => (proc'[p] = FreeProc /\ pidFile' = pidFile)
          /\ (StatusUnlink(p) /\ get_pid = proc[p].rpid
                              /\ ~Alive(proc[p].rpid))
             => ~pidFile'.exists
          /\ (StatusProbe(p) \/ StatusUnlink(p))
             => \A q \in Pids \ {p} : proc'[q] = proc[q]]_vars

\* C18: check_and_update calls the installer at most once, and does so
\* exactly when the check reported a newer version and auto_install is
\* true; its result is then the installer's result, and FALSE otherwise.
C18_InstallsOnlyWhenAsked ==
    calc.fn = "check_and_update" =>
        LET wanted == calc.fetch = "newer" /\ calc.auto_install
        IN  /\ calc.out.installCalls = (IF wanted THEN 1 ELSE 0)
            /\ calc.out.updated = (IF wanted THEN calc.installer ELSE FALSE)

\* an available update with auto_install off: nothing installed, FALSE
C18_Witness ==
    /\ calc.fn = "check_and_update"
    /\ calc.fetch = "newer"
    /\ ~calc.auto_install
    /\ calc.installer
    /\ calc.out.installCalls = 0
    /\ ~calc.out.updated

\* C19: on valid version texts compare_versions is the lexicographic
\* order of the parsed (major, minor, patch, release): -1, 0 or 1 by the
\* first component that differs; a text compares 0 with itself; swapping
\* the arguments negates the result; is_update_available is "compare < 0".
C19_VersionOrdering ==
    (calc.fn = "compare" /\ parse_version(calc.a).ok) =>
        LET x == parse_version(calc.a).tuple
            y == parse_version(calc.b).tuple
            differ == {i \in 1..4 : x[i] # y[i]}
            first == CHOOSE i \in differ : \A j \in differ : i <= j
            expected == IF differ = {} THEN 0
                        ELSE IF x[first] < y[first] THEN -1 ELSE 1
        IN  /\ ~calc.ab.raised /\ ~calc.ba.raised /\ ~calc.aa.raised
            /\ calc.ab.value = expected
            /\ calc.aa.value = 0
            /\ calc.ab.value = 0 - calc.ba.value
            /\ ~calc.available.raised
            /\ calc.available.value <=> calc.ab.value < 0

\* "v1.0" against "1.0.0-1": only the release is higher, update available
C19_Witness ==
    /\ calc.fn = "compare"
    /\ calc.a = <<"v", "1", ".", "0">>
    /\ calc.b = <<"1", ".", "0", ".", "0", "-", "1">>
    /\ calc.ab.value = -1
    /\ calc.ba.value = 1
    /\ calc.available.value

HasDash(text) == \E i \in 1..Len(text) : text[i] = "-"

\* C20: parsing a valid version text, formatting the tuple and parsing
\* again gives the same tuple; parsing the formatted text of a tuple of
\* non-negative numbers gives the tuple back; the formatted text has a
\* "-RELEASE" suffix exactly when the release is not 0.
C20_RoundTrip ==
    /\ (calc.fn = "round_trip" /\ calc.parsed.ok) =>
          /\ calc.again = calc.parsed
          /\ HasDash(calc.text) <=> calc.parsed.tuple[4] # 0
    /\ calc.fn = "format" =>
          /\ calc.parsed = [ok |-> TRUE, tuple |-> calc.tuple]
          /\ HasDash(calc.text) <=> calc.tuple[4] # 0
          /\ calc.tuple[4] # 0 =>
                calc.text = Dotted(SubSeq(calc.tuple, 1, 3)) \o <<"-">>
                            \o IntText(calc.tuple[4])

\* " v1.10-1" comes back as "1.10.0-1", which parses to the same tuple
C20_Witness ==
    /\ calc.fn = "round_trip"
    /\ calc.s = <<" ", "v", "1", ".", "1", "0", "-", "1">>
    /\ calc.parsed.ok
    /\ calc.parsed.tuple = <<1, 10, 0, 1>>
    /\ calc.text = <<"1", ".", "1", "0", ".", "0", "-", "1">>

\* the components present in a version text: every dotted piece of the
\* part before the first dash, and every piece after a dash
PresentComponents(s) ==
    LET parts == Split(LStripChar(Strip(s), "v"), "-")
    IN  Split(parts[1], ".") \o Tail(parts)

\* C21: parse_version raises, and returns no tuple, whenever a component
\* present in the text is not a number, a fourth or later dotted
\* component and the text after a second dash included.
C21_MalformedRejected ==
    calc.fn = "parse" =>
        LET cs == PresentComponents(calc.s)
        IN  (\E i \in 1..Len(cs) : ~ParseInt(cs[i]).ok) => ~calc.out.ok

\* C22: the environment of the relaunched application sets DISPLAY, HOME,
\* USER, LOGNAME and a DBUS_SESSION_BUS_ADDRESS derived from the located
\* uid; XAUTHORITY is set only when an authority file was discovered, and
\* is then the first existing candidate.
C22_RelaunchEnvironment ==
    calc.fn = "launch_env" =>
        LET env == calc.out
            found == {i \in 1..Len(XauthCandidates) : calc.exists[i]}
        IN  /\ env.DISPLAY # "unset"
            /\ env.HOME = <<"home", calc.session.user>>
            /\ env.USER = calc.session.user
            /\ env.LOGNAME = calc.session.user
            /\ env.DBUS_SESSION_BUS_ADDRESS
                  = <<"run_user_bus", calc.session.uid>>
            /\ found = {} <=> env.XAUTHORITY = "unset"
            /\ found # {} =>
                  env.XAUTHORITY
                     = XauthCandidates[CHOOSE i \in found :
                                          \A j \in found : i <= j]

\* C23: stop() of a recorded PID sends SIGTERM first; it polls only after
\* a delivered SIGTERM, at most MaxPolls times; it reaches SIGKILL only
\* from the last poll, with every poll having found the process alive; a
\* poll that finds the process gone ends the wait without SIGKILL.
C23_StopEscalation ==
    [][\A p \in Pids :
          /\ (proc'[p].pc = "t_term" /\ proc[p].pc # "t_term")
             => (StopRead(p) /\ get_pid # 0)
          /\ (proc'[p].pc = "t_poll" /\ proc[p].pc # "t_poll")
             => (StopTerm(p) /\ KillResult(p, proc[p].rpid) = "ok")
          /\ (proc'[p].pc = "t_poll" /\ proc[p].pc = "t_poll")
             => (StopPoll(p) => /\ KillResult(p, proc[p].rpid) = "ok"
                                /\ proc'[p].polls = proc[p].polls + 1
                                /\ proc'[p].polls < MaxPolls)
          /\ (proc'[p].pc = "t_kill" /\ proc[p].pc # "t_kill")
             => /\ StopPoll(p)
                /\ proc[p].polls = MaxPolls - 1
                /\ KillResult(p, proc[p].rpid) = "ok"
          /\ (StopPoll(p) /\ KillResult(p, proc[p].rpid) # "ok")
             => proc'[p].pc = "t_remove"]_vars

\* a stop() about to send SIGKILL to a daemon that took the SIGTERM in
\* its handler and is still alive
C23_Witness ==
    \E p \in Pids :
        /\ proc[p].pc = "t_kill"
        /\ proc[p].rpid \in Pids
        /\ Alive(proc[p].rpid)
        /\ proc[proc[p].rpid].handlers
        /\ ~proc[proc[p].rpid].running

C25_PollScheduling ==
    /\ \A e \in 0..CheckIntervalTicks : Due(e, 0)
    /\ [][\A p \in Pids :
             /\ (LoopTop(p) /\ proc[p].running)
                => /\ proc'[p].pc = "check"
                      <=> proc[p].elapsed >= CheckIntervalTicks
                   /\ proc'[p].pc \in {"check", "sleep"}
             /\ StartRun(p) => proc'[p].elapsed >= CheckIntervalTicks
             /\ (proc[p].pc \in {"check", "relaunch"}
                    /\ proc'[p].pc = "sleep")
                => proc'[p].elapsed = 0
             /\ (proc[p].pc = "check" /\ proc'[p].pc # "check" /\ Alive(p)')
                => proc'[p].pc \in {"relaunch", "sleep"}
             /\ (proc[p].pc = "relaunch" /\ proc'[p].pc # "relaunch"
                    /\ Alive(p)')
                => proc'[p].pc = "sleep"
             /\ Sleep(p)
                => /\ proc'[p].pc = "loop"
                   /\ \/ proc'[p].elapsed > proc[p].elapsed
                      \/ proc'[p].elapsed = CheckIntervalTicks
             /\ (proc'[p].pc = "loop" /\ proc[p].pc # "loop")
                => (Sleep(p) \/ StartRun(p))]_vars

\* an iteration that ran no cycle: the interval has not passed yet
C25_Witness ==
    \E p \in Pids :
        /\ proc[p].pc = "sleep"
        /\ proc[p].running
        /\ ~proc[p].cyc.ran
        /\ proc[p].elapsed > 0
        /\ proc[p].elapsed < CheckIntervalTicks

\* C26: the PID file is written only by _write_pid of a process past
\* _daemonize, with that process's own PID, and that process goes on to
\* the loop; a detaching start reaches _write_pid only as the child of the
\* second fork; the launcher and the intermediate child end at their fork
\* and leave the PID file alone.
C26_RecordedPidIsDetachedProcess ==
    [][/\ (pidFile'.exists /\ pidFile' # pidFile)
          => \E p \in Pids : /\ StartWrite(p)
                             /\ pidFile'.content = p
                             /\ proc'[p].pc = "s_sig"
       /\ \A p \in Pids :
             /\ (proc[p].pc \in {"s_fork1", "s_fork2"}
                    /\ proc'[p] # proc[p])
                => (~Alive(p)' /\ pidFile' = pidFile)
             /\ (proc'[p].pc = "s_write" /\ proc'[p].detach
                    /\ proc[p].pc # "s_write")
                => \E q \in Pids \ {p} : proc[q].pc = "s_fork2" /\ Fork(q)
             /\ (proc'[p].pc = "s_fork2" /\ proc[p].pc # "s_fork2")
                => \E q \in Pids \ {p} : proc[q].pc = "s_fork1" /\ Fork(q)
             /\ (proc'[p].pc = "s_fork1" /\ proc[p].pc # "s_fork1")
                => (proc[p].pc \in {"s_read", "s_unlink"}
                       /\ proc[p].detach)]_vars

\* a detached daemon in its loop, named by the PID file it created
C26_Witness ==
    \E p \in Pids :
        /\ InLoop(p)
        /\ pidFile.exists
        /\ pidFile.content = p
        /\ pidFile.ww

\* C27: the probes run in the order loginctl, /run/user, X socket; a
\* probe runs exactly when no earlier probe yielded a username, a probe
\* that failed counting as one that yielded none; the first username
\* found wins; no exception leaves the locator.
C27_ProbeCascade ==
    calc.fn = "locate" =>
        LET ran == calc.out.attempted
            n == Len(ran)
            yielding == {i \in 1..Len(Probes) : calc.outs[i] = "user"}
        IN  /\ ~calc.out.raised
            /\ n >= 1
            /\ ran = SubSeq(Probes, 1, n)
            /\ \A i \in 1..Len(Probes) :
                  i <= n <=> \A j \in 1..(i - 1) : calc.outs[j] # "user"
            /\ calc.out.found <=> yielding # {}

\* C28: in a relaunch every process pgrep listed, except the daemon
\* itself, is sent SIGTERM, whether or not an earlier os.kill failed; the
\* daemon's own PID is never signalled; there is one settle wait, after
\* every SIGTERM and before every launch attempt, and a launch follows.
C28_KillThenLaunch ==
    calc.fn = "restart" =>
        LET evs == calc.out
            at(kind) == {i \in 1..Len(evs) : evs[i].ev = kind}
        IN  /\ ~calc.pgrepRaises =>
                  {evs[i].pid : i \in at("TERM")} = calc.listed \ {calc.self}
            /\ \A i \in at("TERM") : evs[i].pid # calc.self
            /\ Cardinality(at("settle")) = 1
            /\ at("launch") # {}
            /\ \A i \in at("TERM"), j \in at("settle") : i < j
            /\ \A j \in at("settle"), k \in at("launch") : j < k

\* pgrep listed the daemon and two others; the first os.kill failed and
\* the second process was signalled all the same
C28_Witness ==
    /\ calc.fn = "restart"
    /\ calc.self \in calc.listed
    /\ Cardinality(calc.listed) >= 3
    /\ ~calc.pgrepRaises
    /\ Len(calc.out) >= 2
    /\ calc.out[1].ev = "TERM" /\ calc.out[1].pid \in calc.failing
    /\ calc.out[2].ev = "TERM"

\* C29: with every timeout-bearing call returning within its timeout, a
\* cycle that has begun always leaves check_and_update and
\* _restart_myapp again.
C29_CycleTerminates ==
    \A p \in Pids :
        (proc[p].pc \in {"check", "relaunch"})
            ~> (proc[p].pc \notin {"check", "relaunch"})

C31_StaleLockRecovered ==
    [][\A p \in Pids :
          /\ (StartProbe(p) /\ ~Alive(proc[p].rpid))
             => proc'[p].pc = "s_unlink"
          /\ (StartUnlink(p) /\ ~Alive(proc[p].rpid))
             => (Alive(p)' /\ proc'[p].pc \in {"s_fork1", "s_write"})
          /\ (StartWrite(p) /\ ~raced)
             => (/\ pidFile'.exists
                 /\ pidFile'.content = p
                 /\ proc'[p].pc = "s_sig")
          /\ StartRun(p)
             => (proc'[p].running /\ proc'[p].pc = "loop")]_vars

\* C32: every SIGTERM or SIGKILL of stop() that is delivered reaches a
\* process that wrote the PID file as a daemon of this program, never
\* another process that got the recorded PID after that daemon died.
C32_StopSignalsOnlyDaemons ==
    [][\A p \in Pids :
          ((StopTerm(p) \/ StopKill(p))
              /\ KillResult(p, proc[p].rpid) = "ok")
          => proc[proc[p].rpid].atexit]_vars

\* C33: a mechanism is counted as the success only if that mechanism
\* started an instance of the application; a process that matched the
\* pattern before (a surviving old instance, the daemon itself) never
\* makes an attempt a success.
C33_SuccessIsReal ==
    (calc.fn = "rescan" /\ calc.out.won # "none") =>
        LET n == Len(calc.out.attempts)
        IN  calc.out.won = Mechanisms[n] /\ calc.starts[n]

\* C34: one run of the mechanism loop starts at most one new instance of
\* the application.
C34_AtMostOneInstance ==
    calc.fn = "rescan" => Cardinality(calc.out.started) <= 1

\* C35: of the launcher, the first child and the second child of a
\* detaching start, only the second child goes on to write the PID file
\* and run the loop, and it does so exactly when both forks succeeded; the
\* parent of a fork that succeeded exits 0; the process whose fork failed
\* exits 1, and then nobody writes the PID file.
C35_OneWorker ==
    calc.fn = "start_detached" =>
        LET fate == calc.out.fate
            bothOk == calc.fork1 = "ok" /\ calc.fork2 = "ok"
        IN  /\ calc.out.writers = (IF bothOk THEN {"child2"} ELSE {})
            /\ fate.launcher = (IF calc.fork1 = "ok" THEN "exit0" ELSE "exit1")
            /\ calc.fork1 = "ok" =>
                  fate.child1 = (IF calc.fork2 = "ok" THEN "exit0"
                                 ELSE "exit1")
            /\ calc.fork1 = "fail" =>
                  (fate.child1 = "never" /\ fate.child2 = "never")
            /\ fate.child2 = (IF bothOk THEN "continues" ELSE "never")

\* the second fork failed: the first child exits 1, nobody writes
C35_Witness ==
    /\ calc.fn = "start_detached"
    /\ calc.fork1 = "ok"
    /\ calc.fork2 = "fail"
    /\ calc.out.fate.launcher = "exit0"
    /\ calc.out.fate.child1 = "exit1"
    /\ calc.out.writers = {}

\* C36: after every direct-package install attempt, however its download
\* and its commands ended, no temporary package file of the attempt is
\* left.
C36_NoLeakedPackageFile ==
    calc.fn = "install_via_deb" => TempFilesLeft(calc.events) = 0

=============================================================================
